---- MODULE Spec2Model ----
(***************************************************************************)
(* The smartcab grid world of Practice/Practice_trading_myself:            *)
(* environment_trading.py (TrafficLight, Environment, Agent) and the trial *)
(* loop of simulator_trading.py.                                           *)
(*                                                                         *)
(* Python values are encoded as follows.                                   *)
(*   None                 the string "None"                                *)
(*   a dict               a function/record whose DOMAIN is its key set    *)
(*   a coordinate         <<x, y>>; agent_states[a].location also carries  *)
(*                        its Python type ("list" or "tuple")              *)
(*   a float reward       [fixed |-> i, pen |-> f] standing for            *)
(*                        i - (10^f - 1)/9, f a reduced fraction <<n, d>>  *)
(***************************************************************************)
EXTENDS Integers, Sequences, FiniteSets, TLC

VARIABLES
    intersections,    \* Environment.intersections: coordinate -> TrafficLight
    agent_states,     \* Environment.agent_states: agent -> state dict
    primary_agent,    \* Environment.primary_agent ("None" until set)
    enforce_deadline, \* Environment.enforce_deadline
    agent_flag,       \* Agent.primary_agent of every agent object
    next_waypoint,    \* Agent.next_waypoint of every agent object
    t,                \* Environment.t
    done,             \* Environment.done
    success,          \* Environment.success ("None", "True", "False")
    trial_data,       \* Environment.trial_data
    step_data,        \* Environment.step_data
    light,            \* a stand-alone TrafficLight object
    sim,              \* the Simulator: its quit flag and the locals of run()
    primary_acts,     \* act calls of the primary agent that returned since
                      \* trial_data was created (history)
    trail,            \* the legal turns an agent has just made in a row (history)
    call              \* the last call made and what it returned or raised

vars == <<intersections, agent_states, primary_agent, enforce_deadline, agent_flag,
          next_waypoint, t, done, success, trial_data, step_data, light, sim,
          primary_acts, trail, call>>

envVars == <<intersections, agent_states, primary_agent, enforce_deadline, agent_flag,
             next_waypoint, t, done, success, trial_data, step_data>>

-----------------------------------------------------------------------------
(* Bounds of the model *)

GridCols == 2        \* grid_size[0]
GridRows == 1        \* grid_size[1]
MaxT == 2            \* Environment.t is advanced up to this tick
MaxDeadline == 1     \* the largest deadline a reset hands out
MaxActs == 2         \* primary-agent act calls counted per trial
MaxActsShort == 1    \* the same, in the specifications that explore whole trials
MaxTick == 6         \* largest tick value passed to a stand-alone light
MaxClock == 11       \* a stand-alone light is updated tick by tick up to this tick
MaxNTest == 2        \* largest n_test passed to Simulator.run
MaxEpsilon == 1      \* epsilon levels of a learning agent (tolerance is level 1)
MaxTrials == 24      \* Simulator.run counts its trials up to this number

Agents == {"a1", "a2"}                 \* the agent objects that exist
RandomBase == {-1, 0}                  \* values of 2 * random.random() - 1
SubmittedActions == {"None", "forward", "left", "right", "uturn"}

-----------------------------------------------------------------------------
(* TrafficLight *)

valid_states == {TRUE, FALSE}          \* TRUE = NS open; FALSE = EW open
Periods == {2, 3, 4, 5}

TrafficLightInit(state, period) ==
    [state |-> state, period |-> period, last_updated |-> 0]

TrafficLightReset(l) == [l EXCEPT !.last_updated = 0]

\* update(t) with a catch-up loop: one flip for every whole period elapsed
TrafficLightUpdateCatchUp(l, tick) ==
    LET n == IF tick - l.last_updated >= l.period
             THEN (tick - l.last_updated) \div l.period ELSE 0
    IN  IF n > 0
        THEN [light |-> [l EXCEPT !.state = IF n % 2 = 1 THEN ~l.state ELSE l.state,
                                  !.last_updated = tick],
              flips |-> n]
        ELSE [light |-> l, flips |-> 0]

\* update(t) that waits for more than a period to elapse
TrafficLightUpdateLate(l, tick) ==
    IF tick - l.last_updated > l.period
    THEN [light |-> [l EXCEPT !.state = ~l.state, !.last_updated = tick], flips |-> 1]
    ELSE [light |-> l, flips |-> 0]

\* update(t): the light after the call and the number of phase flips it made
TrafficLightUpdate(l, tick) ==
    IF tick - l.last_updated >= l.period
    THEN [light |-> [l EXCEPT !.state = ~l.state, !.last_updated = tick], flips |-> 1]
    ELSE [light |-> l, flips |-> 0]

-----------------------------------------------------------------------------
(* Environment: class attributes and the road network *)

valid_actions == {"None", "forward", "left", "right"}
valid_inputs == [oncoming : valid_actions, left : valid_actions, right : valid_actions]
valid_headings == {<<1, 0>>, <<0, -1>>, <<-1, 0>>, <<0, 1>>}   \* E, N, W, S

bounds == <<1, 2, GridCols, GridRows + 1>>

Coords == {<<x, y>> : x \in bounds[1]..bounds[3], y \in bounds[2]..bounds[4]}

\* the light rule with the two heading axes taken for one another
LightForAxesSwapped(state, heading) ==
    IF (state /\ heading[1] # 0) \/ (~state /\ heading[2] # 0) THEN "green" ELSE "red"

\* the light an agent heading `heading` sees at a signal in phase `state`
LightFor(state, heading) ==
    IF (state /\ heading[2] # 0) \/ (~state /\ heading[1] # 0) THEN "green" ELSE "red"

Clamped(v, lo, hi) == IF v > hi THEN hi ELSE IF v < lo THEN lo ELSE v

\* relocation that stops at the edge of the grid instead of wrapping around
MoveClamped(location, heading) ==
    << Clamped(location[1] + heading[1], bounds[1], bounds[3]),
       Clamped(location[2] + heading[2], bounds[2], bounds[4]) >>

\* wrap-around relocation by one cell along `heading`
Move(location, heading) ==
    << ((location[1] + heading[1] - bounds[1]) % (bounds[3] - bounds[1] + 1)) + bounds[1],
       ((location[2] + heading[2] - bounds[2]) % (bounds[4] - bounds[2] + 1)) + bounds[2] >>

TurnLeft(heading) == <<heading[2], -heading[1]>>
TurnRight(heading) == <<-heading[2], heading[1]>>

-----------------------------------------------------------------------------
(* Environment.act: classification of the action *)

\* forward that looks for cross traffic on the left only
AdjudicateForwardLeftOnly(lt, inputs, heading) ==
    IF lt # "green"
    THEN IF inputs.left = "forward"
         THEN [violation |-> 4, heading |-> heading]
         ELSE [violation |-> 2, heading |-> heading]
    ELSE [violation |-> 0, heading |-> heading]

AdjudicateForward(lt, inputs, heading) ==
    IF lt # "green"
    THEN IF inputs.left = "forward" \/ inputs.right = "forward"
         THEN [violation |-> 4, heading |-> heading]
         ELSE [violation |-> 2, heading |-> heading]
    ELSE [violation |-> 0, heading |-> heading]

\* left that forgets the oncoming car turning right at a red light
AdjudicateLeftNoOncoming(lt, inputs, heading) ==
    IF lt # "green"
    THEN IF inputs.left = "forward" \/ inputs.right = "forward"
         THEN [violation |-> 4, heading |-> heading]
         ELSE [violation |-> 2, heading |-> heading]
    ELSE IF inputs.oncoming = "right" \/ inputs.oncoming = "forward"
         THEN [violation |-> 3, heading |-> heading]
         ELSE [violation |-> 0, heading |-> TurnLeft(heading)]

AdjudicateLeft(lt, inputs, heading) ==
    IF lt # "green"
    THEN IF inputs.left = "forward" \/ inputs.right = "forward"
         THEN [violation |-> 4, heading |-> heading]
         ELSE IF inputs.oncoming = "right"
              THEN [violation |-> 4, heading |-> heading]
              ELSE [violation |-> 2, heading |-> heading]
    ELSE IF inputs.oncoming = "right" \/ inputs.oncoming = "forward"
         THEN [violation |-> 3, heading |-> heading]
         ELSE [violation |-> 0, heading |-> TurnLeft(heading)]

\* right that treats a red light like forward does
AdjudicateRightStopsAtRed(lt, inputs, heading) ==
    IF lt # "green"
    THEN IF inputs.left = "forward"
         THEN [violation |-> 3, heading |-> heading]
         ELSE [violation |-> 2, heading |-> heading]
    ELSE [violation |-> 0, heading |-> TurnRight(heading)]

AdjudicateRight(lt, inputs, heading) ==
    IF lt # "green" /\ inputs.left = "forward"
    THEN [violation |-> 3, heading |-> heading]
    ELSE [violation |-> 0, heading |-> TurnRight(heading)]

\* waiting that ignores the oncoming car turning left
AdjudicateNoneAnyGreen(lt, inputs, heading) ==
    IF lt = "green"
    THEN [violation |-> 1, heading |-> heading]
    ELSE [violation |-> 0, heading |-> heading]

AdjudicateNone(lt, inputs, heading) ==
    IF lt = "green" /\ inputs.oncoming # "left"
    THEN [violation |-> 1, heading |-> heading]
    ELSE [violation |-> 0, heading |-> heading]

Adjudicate(action, lt, inputs, heading) ==
    CASE action = "forward" -> AdjudicateForward(lt, inputs, heading)
      [] action = "left"    -> AdjudicateLeft(lt, inputs, heading)
      [] action = "right"   -> AdjudicateRight(lt, inputs, heading)
      [] action = "None"    -> AdjudicateNone(lt, inputs, heading)

-----------------------------------------------------------------------------
(* Environment.act: reward scheme *)

Abs(n) == IF n < 0 THEN -n ELSE n

RECURSIVE GCD(_, _)
GCD(a, b) == IF b = 0 THEN a ELSE GCD(b, a % b)

\* the fraction n / d (d # 0) in lowest terms with a positive denominator
Frac(n, d) ==
    LET g == GCD(Abs(n), Abs(d))
        s == IF d < 0 THEN -1 ELSE 1
    IN  <<(s * n) \div g, (s * d) \div g>>

Zero == <<0, 1>>

\* fnc = self.t * 1.0 / (self.t + state['deadline']) if agent.primary_agent else 0.0
Fnc(flag, tick, state) ==
    IF flag THEN Frac(tick, tick + state.deadline) ELSE Zero

\* penalty = (10 ** fnc - 1) / (10 - 1) when the deadline is enforced, else 0
\* (gradient = 10); the value is kept as its exponent f, and f = 0 is the penalty 0
Penalty(enforce, fnc) == IF enforce THEN fnc ELSE Zero

\* the reward scheme without the bonus for waiting at a red light
RewardWaitingUnrewarded(rand, violation, action, waypoint, lt, penalty) ==
    IF violation = 0
    THEN IF action = waypoint
         THEN [fixed |-> rand + 2, pen |-> penalty]
         ELSE [fixed |-> rand + 1, pen |-> penalty]
    ELSE CASE violation = 1 -> [fixed |-> rand + (-5), pen |-> Zero]
           [] violation = 2 -> [fixed |-> rand + (-10), pen |-> Zero]
           [] violation = 3 -> [fixed |-> rand + (-20), pen |-> Zero]
           [] violation = 4 -> [fixed |-> rand + (-40), pen |-> Zero]

\* the reward returned: the random base plus the outcome's term
Reward(rand, violation, action, waypoint, lt, penalty) ==
    IF violation = 0
    THEN IF action = waypoint
         THEN [fixed |-> rand + 2, pen |-> penalty]
         ELSE IF action = "None" /\ lt # "green"
              THEN [fixed |-> rand + 2, pen |-> penalty]
              ELSE [fixed |-> rand + 1, pen |-> penalty]
    ELSE CASE violation = 1 -> [fixed |-> rand + (-5), pen |-> Zero]
           [] violation = 2 -> [fixed |-> rand + (-10), pen |-> Zero]
           [] violation = 3 -> [fixed |-> rand + (-20), pen |-> Zero]
           [] violation = 4 -> [fixed |-> rand + (-40), pen |-> Zero]

\* net_reward += reward: the integer parts add up, the penalties are kept as a bag
AddReward(net, reward) ==
    [fixed |-> net.fixed + reward.fixed,
     pens  |-> IF reward.pen = Zero THEN net.pens
               ELSE IF reward.pen \in DOMAIN net.pens
                    THEN [net.pens EXCEPT ![reward.pen] = @ + 1]
                    ELSE net.pens @@ (reward.pen :> 1)]

-----------------------------------------------------------------------------
(* Environment: construction *)

EmptyDict == [k \in {} |-> "None"]

NewTrialData(testing, distance, deadline) ==
    [testing |-> testing, initial_distance |-> distance, initial_deadline |-> deadline,
     net_reward |-> [fixed |-> 0, pens |-> EmptyDict],
     final_deadline |-> <<>>,        \* <<>> is None, <<d>> the value d
     actions |-> [v \in 0..4 |-> 0],
     success |-> 0]

\* Environment.__init__: every light's state and period are drawn at random
\* (the periods from `periods`, a subset of Periods)
EnvInit(periods) ==
    /\ intersections \in [Coords -> {TrafficLightInit(s, p) : s \in valid_states, p \in periods}]
    /\ agent_states = EmptyDict
    /\ primary_agent = "None"
    /\ enforce_deadline = FALSE
    /\ agent_flag = [a \in Agents |-> FALSE]
    /\ next_waypoint = [a \in Agents |-> "None"]
    /\ t = 0
    /\ done = FALSE
    /\ success = "None"
    /\ trial_data = NewTrialData(FALSE, 0, 0)
    /\ step_data = EmptyDict

\* Simulator.__init__ (the display and the log files left out)
SimulatorInit == [pc |-> "constructed", quit |-> FALSE]

Init ==
    /\ EnvInit({2})
    /\ light = TrafficLightInit(TRUE, 2)
    /\ sim = SimulatorInit
    /\ primary_acts = 0
    /\ trail = <<>>
    /\ call = [op |-> "init"]

-----------------------------------------------------------------------------
(* Environment: operations *)

\* create_agent: a new agent object is registered at a random intersection
CreateAgent(a, at) ==
    /\ a \notin DOMAIN agent_states
    /\ agent_states' = agent_states @@
           (a :> [location |-> [type |-> "list", at |-> at], heading |-> <<0, 1>>])
    /\ call' = [op |-> "create_agent", agent |-> a]
    /\ UNCHANGED <<intersections, primary_agent, enforce_deadline, agent_flag,
                   next_waypoint, t, done, success, trial_data, step_data, light,
                   primary_acts>>

SetPrimaryAgent(a, enforce) ==
    /\ primary_agent' = a
    /\ agent_flag' = [agent_flag EXCEPT ![a] = TRUE]
    /\ enforce_deadline' = enforce
    /\ call' = [op |-> "set_primary_agent", agent |-> a, enforce |-> enforce]
    /\ UNCHANGED <<intersections, agent_states, next_waypoint, t, done, success,
                   trial_data, step_data, light, primary_acts>>

Registered == DOMAIN agent_states

L1(a, b) == Abs(a[1] - b[1]) + Abs(a[2] - b[2])

\* reset(testing): every agent is put on a random intersection, the primary agent is
\* given a destination and a deadline, the trial metrics are created afresh, the
\* step snapshot of the last trial is dropped, the clock and every light's last
\* flip tick restart at 0
Reset(testing, locs, dest, deadline) ==
    /\ agent_states' =
         [a \in Registered |->
            IF a = primary_agent
            THEN [location |-> [type |-> "tuple", at |-> locs[a]],
                  heading |-> agent_states[a].heading,
                  destination |-> dest, deadline |-> deadline]
            ELSE [location |-> [type |-> "tuple", at |-> locs[a]],
                  heading |-> agent_states[a].heading]]
    /\ trial_data' = IF primary_agent \in Registered
                     THEN NewTrialData(testing, L1(locs[primary_agent], dest), deadline)
                     ELSE NewTrialData(testing, 0, 0)
    /\ intersections' = [c \in Coords |-> TrafficLightReset(intersections[c])]
    /\ t' = 0
    /\ done' = FALSE
    /\ step_data' = EmptyDict
    /\ primary_acts' = 0
    /\ call' = [op |-> "reset", testing |-> testing]
    /\ UNCHANGED <<primary_agent, enforce_deadline, agent_flag, next_waypoint, success,
                   light>>

Planners == {"a1"}     \* agents of a class whose update() plans a next waypoint

\* step(): the clock advances, every light is updated, every agent decides, the
\* primary agent's deadline counts down (the agent's act call is the action Act)
Step(plan) ==
    /\ t < MaxT
    /\ t' = t + 1
    /\ intersections' = [c \in Coords |-> TrafficLightUpdate(intersections[c], t + 1).light]
    /\ next_waypoint' = [a \in Agents |->
                           IF a \in Planners \cap Registered THEN plan ELSE next_waypoint[a]]
    /\ agent_states' =
         [a \in Registered |->
            IF a = primary_agent /\ "deadline" \in DOMAIN agent_states[a]
            THEN [agent_states[a] EXCEPT !.deadline = @ - 1]
            ELSE agent_states[a]]
    /\ call' = [op |-> "step"]
    /\ UNCHANGED <<primary_agent, enforce_deadline, agent_flag, done, success,
                   trial_data, step_data, light, primary_acts>>

-----------------------------------------------------------------------------
(* Environment.act *)

\* the two assertions in the other order
ActAssertsActionFirst(agent, action) ==
    IF action \notin valid_actions THEN "InvalidActionError"
    ELSE IF agent \notin Registered THEN "UnknownAgentError"
    ELSE "ok"

\* the two assertions opening act: what the call raises, or "ok"
ActAsserts(agent, action) ==
    IF agent \notin Registered THEN "UnknownAgentError"      \* assert ..., "Unknown agent!"
    ELSE IF action \notin valid_actions THEN "InvalidActionError"  \* "Invalid action!"
    ELSE "ok"

\* what reading the state dict raises before anything is written, or "ok"
ActReads(agent) ==
    LET state == agent_states[agent] IN
    IF state.location.type = "list" THEN "TypeError"       \* intersections[location]
    ELSE IF agent_flag[agent] /\ "deadline" \notin DOMAIN state THEN "KeyError"
    ELSE IF agent_flag[agent] /\ t + state.deadline = 0 THEN "ZeroDivisionError"
    ELSE "ok"

ActsCounted == trial_data.actions[0] + trial_data.actions[1] + trial_data.actions[2]
               + trial_data.actions[3] + trial_data.actions[4]

\* a move that is committed whatever the violation
RelocateAnyway(state, action, adj) ==
    IF action # "None"
    THEN [state EXCEPT !.location = [type |-> "tuple", at |-> Move(state.location.at, adj.heading)],
                       !.heading = adj.heading]
    ELSE state

\* a move made along the heading the agent had before it turned
RelocateBeforeTurning(state, action, adj) ==
    IF adj.violation = 0 /\ action # "None"
    THEN [state EXCEPT !.location = [type |-> "tuple", at |-> Move(state.location.at, state.heading)],
                       !.heading = adj.heading]
    ELSE state

\* the state dict after the move, if the action moves the agent
Relocate(state, action, adj) ==
    IF adj.violation = 0 /\ action # "None"
    THEN [state EXCEPT !.location = [type |-> "tuple", at |-> Move(state.location.at, adj.heading)],
                       !.heading = adj.heading]
    ELSE state

\* a goal check that counts an arrival only while the deadline has not passed
ArrivedInTime(agent, state) ==
    agent = primary_agent /\ state.location.at = state.destination /\ state.deadline >= 0

\* "Did agent reach the goal after a valid move?"
Arrived(agent, state) ==
    agent = primary_agent /\ state.location.at = state.destination

\* metrics whose net reward is overwritten by the last reward, not accumulated
TrialMetricsLastReward(td, state, violation, reward, arrived) ==
    [td EXCEPT !.success = IF arrived /\ state.deadline >= 0 THEN 1 ELSE @,
               !.final_deadline = <<state.deadline - 1>>,
               !.net_reward = AddReward([fixed |-> 0, pens |-> EmptyDict], reward),
               !.actions[violation] = @ + 1]

\* metrics whose success field is set on every arrival, in time or not
TrialMetricsAnyArrival(td, state, violation, reward, arrived) ==
    [td EXCEPT !.success = IF arrived THEN 1 ELSE @,
               !.final_deadline = <<state.deadline - 1>>,
               !.net_reward = AddReward(@, reward),
               !.actions[violation] = @ + 1]

\* trial_data after an act call of the primary agent (`arrived`: the goal check)
TrialMetrics(td, state, violation, reward, arrived) ==
    [td EXCEPT !.success = IF arrived /\ state.deadline >= 0 THEN 1 ELSE @,
               !.final_deadline = <<state.deadline - 1>>,
               !.net_reward = AddReward(@, reward),
               !.actions[violation] = @ + 1]

ActRaise(agent, action, err) ==
    /\ call' = [op |-> "act", agent |-> agent, action |-> action, outcome |-> err]
    /\ UNCHANGED <<envVars, primary_acts>>

ActReturn(agent, action, inputs, rand) ==
    LET state    == agent_states[agent]
        lt       == LightFor(intersections[state.location.at].state, state.heading)
        penalty  == Penalty(enforce_deadline, Fnc(agent_flag[agent], t, state))
        adj      == Adjudicate(action, lt, inputs, state.heading)
        waypoint == next_waypoint[agent]
        reward   == Reward(rand, adj.violation, action, waypoint, lt, penalty)
        after    == Relocate(state, action, adj)
    IN  /\ agent_states' = [agent_states EXCEPT ![agent] = after]
        /\ IF agent = primary_agent
           THEN /\ done' = (done \/ Arrived(agent, after))
                /\ success' = IF Arrived(agent, after) THEN "True" ELSE success
                /\ step_data' = [t |-> t, violation |-> adj.violation, state |-> "None",
                                 deadline |-> after.deadline, waypoint |-> waypoint,
                                 inputs |-> inputs, light |-> lt, action |-> action,
                                 reward |-> reward]
                /\ trial_data' = TrialMetrics(trial_data, after, adj.violation, reward,
                                               Arrived(agent, after))
           ELSE UNCHANGED <<done, success, step_data, trial_data>>
        /\ primary_acts' = IF agent = primary_agent THEN primary_acts + 1 ELSE primary_acts
        /\ call' = [op |-> "act", agent |-> agent, action |-> action, outcome |-> "ok",
                    before |-> state, light |-> lt, inputs |-> inputs,
                    waypoint |-> waypoint, rand |-> rand, penalty |-> penalty,
                    violation |-> adj.violation, reward |-> reward]
        /\ UNCHANGED <<intersections, primary_agent, enforce_deadline, agent_flag,
                       next_waypoint, t>>

\* act(agent, action); `inputs` is what sense(agent) returns, `rand` the random base
Act(agent, action, inputs, rand) ==
    /\ agent = primary_agent => ActsCounted < MaxActs
    /\ IF ActAsserts(agent, action) # "ok"
       THEN ActRaise(agent, action, ActAsserts(agent, action))
       ELSE IF ActReads(agent) # "ok"
            THEN ActRaise(agent, action, ActReads(agent))
            ELSE ActReturn(agent, action, inputs, rand)
    /\ UNCHANGED light

-----------------------------------------------------------------------------
(* A stand-alone TrafficLight driven with arbitrary tick values *)

LightUpdate(tick) ==
    /\ light' = TrafficLightUpdate(light, tick).light
    /\ call' = [op |-> "update", t |-> tick, last |-> light.last_updated,
                flips |-> TrafficLightUpdate(light, tick).flips]
    /\ UNCHANGED <<envVars, primary_acts>>

LightReset ==
    /\ light' = TrafficLightReset(light)
    /\ call' = [op |-> "light_reset"]
    /\ UNCHANGED <<envVars, primary_acts>>

-----------------------------------------------------------------------------
(* Simulator.run *)

MinTrainingTrials == 20

\* the testing switch that is flipped once 19 training trials are behind
FlipSwitchOneEarly(s) ==
    IF ~s.testing
    THEN IF s.total_trials >= MinTrainingTrials
         THEN IF s.learning
              THEN IF s.epsilon < s.tolerance
                   THEN [testing |-> TRUE, trial |-> 1, break |-> FALSE]
                   ELSE [testing |-> FALSE, trial |-> s.trial, break |-> FALSE]
              ELSE [testing |-> TRUE, trial |-> 1, break |-> FALSE]
         ELSE [testing |-> FALSE, trial |-> s.trial, break |-> FALSE]
    ELSE [testing |-> TRUE, trial |-> s.trial, break |-> s.trial > s.n_test]

\* a loop head that restarts the trial counter at every testing trial
FlipSwitchRestarts(s) ==
    IF ~s.testing
    THEN IF s.total_trials > MinTrainingTrials
         THEN IF s.learning
              THEN IF s.epsilon < s.tolerance
                   THEN [testing |-> TRUE, trial |-> 1, break |-> FALSE]
                   ELSE [testing |-> FALSE, trial |-> s.trial, break |-> FALSE]
              ELSE [testing |-> TRUE, trial |-> 1, break |-> FALSE]
         ELSE [testing |-> FALSE, trial |-> s.trial, break |-> FALSE]
    ELSE [testing |-> TRUE, trial |-> 1, break |-> 1 > s.n_test]

\* the head of the trial loop: "Flip testing switch" and "Break if we've reached
\* the limit of testing trials"; testing and trial after it, and whether it breaks
FlipSwitch(s) ==
    IF ~s.testing
    THEN IF s.total_trials > MinTrainingTrials
         THEN IF s.learning
              THEN IF s.epsilon < s.tolerance
                   THEN [testing |-> TRUE, trial |-> 1, break |-> FALSE]
                   ELSE [testing |-> FALSE, trial |-> s.trial, break |-> FALSE]
              ELSE [testing |-> TRUE, trial |-> 1, break |-> FALSE]
         ELSE [testing |-> FALSE, trial |-> s.trial, break |-> FALSE]
    ELSE [testing |-> TRUE, trial |-> s.trial, break |-> s.trial > s.n_test]

\* the values a learning agent's epsilon may take once its reset has run:
\* "assumes epsilon decays to 0"
EpsilonAfterReset(s) == IF s.learning THEN 0..s.epsilon ELSE {s.epsilon}

\* n + 1; the counters of run stop at MaxTrials, which lies beyond every value they
\* are compared with (MinTrainingTrials and n_test)
Counted(n) == IF n < MaxTrials THEN n + 1 ELSE n

\* run(tolerance, n_test) is entered; `learning` and `epsilon` are the primary
\* agent's attributes; started and completed count the trials by kind (history)
SimRun(tolerance, n_test, learning, epsilon) ==
    /\ sim.pc = "constructed"
    /\ primary_agent \in Registered
    /\ sim' = [pc |-> "loop", quit |-> FALSE, total_trials |-> 1, testing |-> FALSE,
               trial |-> 1, tolerance |-> tolerance, n_test |-> n_test,
               learning |-> learning, epsilon |-> epsilon,
               started   |-> [training |-> 0, testing |-> 0],
               completed |-> [training |-> 0, testing |-> 0]]
    /\ call' = [op |-> "run"]
    /\ UNCHANGED <<envVars, light, primary_acts, trail>>

\* the loop head does not break: a trial is started with env.reset(testing)
SimStartTrial(locs, dest, deadline) ==
    /\ sim.pc = "loop"
    /\ ~FlipSwitch(sim).break
    /\ Reset(FlipSwitch(sim).testing, locs, dest, deadline)
    /\ UNCHANGED trail
    /\ \E e \in EpsilonAfterReset(sim) :
         sim' = [sim EXCEPT !.pc = "frame",
                            !.testing = FlipSwitch(sim).testing,
                            !.trial = FlipSwitch(sim).trial,
                            !.epsilon = e,
                            !.started = IF FlipSwitch(sim).testing
                                        THEN [@ EXCEPT !.testing = Counted(@)]
                                        ELSE [@ EXCEPT !.training = Counted(@)]]

\* the loop head breaks: "Simulation ended"
SimBreak ==
    /\ sim.pc = "loop"
    /\ FlipSwitch(sim).break
    /\ sim' = [sim EXCEPT !.pc = "ended"]
    /\ call' = [op |-> "run", at |-> "break"]
    /\ UNCHANGED <<envVars, light, primary_acts, trail>>

\* a frame of the trial: a quit event or a KeyboardInterrupt sets quit
SimQuit ==
    /\ sim.pc = "frame"
    /\ sim' = [sim EXCEPT !.quit = TRUE, !.pc = "finally"]
    /\ call' = [op |-> "run", at |-> "quit"]
    /\ UNCHANGED <<envVars, light, primary_acts, trail>>

\* a frame in which update_delay has elapsed: env.step()
SimStep(plan) ==
    /\ sim.pc = "frame"
    /\ Step(plan)
    /\ sim' = [sim EXCEPT !.pc = "acting"]
    /\ UNCHANGED trail

\* the primary agent's act call within env.step()
SimAct(action, inputs, rand) ==
    /\ sim.pc = "acting"
    /\ Act(primary_agent, action, inputs, rand)
    /\ sim' = [sim EXCEPT !.pc = "finally"]
    /\ UNCHANGED trail

\* a frame in which update_delay has not elapsed
SimIdle ==
    /\ sim.pc = "frame"
    /\ sim' = [sim EXCEPT !.pc = "finally"]
    /\ call' = [op |-> "run", at |-> "frame"]
    /\ UNCHANGED <<envVars, light, primary_acts, trail>>

\* finally: neither quit nor env.done, the trial goes on
SimNextFrame ==
    /\ sim.pc = "finally"
    /\ ~(sim.quit \/ done)
    /\ sim' = [sim EXCEPT !.pc = "frame"]
    /\ call' = [op |-> "run", at |-> "finally"]
    /\ UNCHANGED <<envVars, light, primary_acts, trail>>

\* finally: quit leaves the trial and then the run
SimQuitRun ==
    /\ sim.pc = "finally"
    /\ sim.quit
    /\ sim' = [sim EXCEPT !.pc = "ended"]
    /\ call' = [op |-> "run", at |-> "quit"]
    /\ UNCHANGED <<envVars, light, primary_acts, trail>>

\* finally: env.done leaves the trial; "Increment"
SimTrialOver ==
    /\ sim.pc = "finally"
    /\ ~sim.quit /\ done
    /\ sim' = [sim EXCEPT !.pc = "loop",
                          !.total_trials = Counted(@),
                          !.trial = Counted(@),
                          !.completed = IF sim.testing
                                        THEN [@ EXCEPT !.testing = Counted(@)]
                                        ELSE [@ EXCEPT !.training = Counted(@)]]
    /\ call' = [op |-> "run", at |-> "increment"]
    /\ UNCHANGED <<envVars, light, primary_acts, trail>>

-----------------------------------------------------------------------------
(* Specifications *)

NoTraffic == [oncoming |-> "None", left |-> "None", right |-> "None"]
CrossTraffic == [oncoming |-> "None", left |-> "forward", right |-> "None"]

\* no trial has been started: every registered agent is still where create_agent put it
NoTrialYet == \A a \in Registered : agent_states[a].location.type = "list"

\* Spec: two agent objects; agents are created and the primary agent is designated
\* (and re-designated) before the first reset; then resets and act calls of both
\* agents in any order, with the clock standing still
Next ==
    \/ \E a \in Agents, at \in Coords : NoTrialYet /\ CreateAgent(a, at) /\ UNCHANGED <<sim, trail>>
    \/ \E a \in Agents, enforce \in BOOLEAN :
          NoTrialYet /\ SetPrimaryAgent(a, enforce) /\ UNCHANGED <<sim, trail>>
    \/ \E locs \in [Registered -> Coords], dest \in Coords, deadline \in 1..MaxDeadline :
          Reset(FALSE, locs, dest, deadline) /\ UNCHANGED <<sim, trail>>
    \/ \E a \in Agents, action \in SubmittedActions :
          /\ a = primary_agent => ActsCounted < MaxActsShort
          /\ Act(a, action, CrossTraffic, 0) /\ UNCHANGED <<sim, trail>>

Spec == Init /\ [][Next]_vars

\* SpecTrial: the smartcab a1 alone, driven through trials tick by tick
NextTrial ==
    \/ \E at \in Coords : CreateAgent("a1", at) /\ UNCHANGED <<sim, trail>>
    \/ \E enforce \in BOOLEAN : SetPrimaryAgent("a1", enforce) /\ UNCHANGED <<sim, trail>>
    \/ \E locs \in [Registered -> Coords], dest \in Coords, deadline \in 1..MaxDeadline :
          Reset(FALSE, locs, dest, deadline) /\ UNCHANGED <<sim, trail>>
    \/ \E plan \in valid_actions : Step(plan) /\ UNCHANGED <<sim, trail>>
    \/ \E action \in valid_actions, inputs \in {NoTraffic, CrossTraffic}, rand \in RandomBase :
          /\ "a1" = primary_agent => ActsCounted < MaxActsShort
          /\ Act("a1", action, inputs, rand) /\ UNCHANGED <<sim, trail>>

SpecTrial == Init /\ [][NextTrial]_vars

\* SpecRules: one agent that is not the primary agent, under every sensed input;
\* the lights are drawn alike, all north-south open or all east-west open
\* (InitRules, also the initial states of SpecSim)
InitRules ==
    /\ Init
    /\ \A c, d \in Coords : intersections[c].state = intersections[d].state

NextRules ==
    \/ \E at \in Coords : CreateAgent("a2", at) /\ UNCHANGED <<sim, trail>>
    \/ \E locs \in [Registered -> Coords], dest \in Coords :
          Reset(FALSE, locs, dest, 1) /\ UNCHANGED <<sim, trail>>
    \/ \E action \in valid_actions, inputs \in valid_inputs :
          Act("a2", action, inputs, 0) /\ UNCHANGED <<sim, trail>>

SpecRules == InitRules /\ [][NextRules]_vars

\* SpecLight: one TrafficLight of any state and period, updated with any tick values
InitLight ==
    /\ EnvInit({2})
    /\ light \in {TrafficLightInit(s, p) : s \in valid_states, p \in Periods}
    /\ sim = SimulatorInit
    /\ primary_acts = 0
    /\ trail = <<>>
    /\ call = [op |-> "init"]

NextLight ==
    \/ \E tick \in 0..MaxTick : LightUpdate(tick) /\ UNCHANGED <<sim, trail>>
    \/ LightReset /\ UNCHANGED <<sim, trail>>

SpecLight == InitLight /\ [][NextLight]_vars

\* the tick of the next update when update is called once per tick, the ticks
\* counting from 1 after construction and after a reset
NextTick == IF call.op = "update" THEN call.t + 1 ELSE 1

\* SpecClock: one TrafficLight of any state and period, updated once per tick
NextClock ==
    \/ NextTick <= MaxClock /\ LightUpdate(NextTick) /\ UNCHANGED <<sim, trail>>
    \/ LightReset /\ UNCHANGED <<sim, trail>>

SpecClock == InitLight /\ [][NextClock]_vars

\* SpecMetrics: the smartcab a1 under an enforced deadline, waiting or turning right
\* up to MaxActs times in a trial, and a second agent a2 driving forward
NextMetrics ==
    \/ \E a \in Agents, at \in Coords : NoTrialYet /\ CreateAgent(a, at) /\ UNCHANGED <<sim, trail>>
    \/ NoTrialYet /\ SetPrimaryAgent("a1", TRUE) /\ UNCHANGED <<sim, trail>>
    \/ \E locs \in [Registered -> Coords], dest \in Coords, deadline \in 1..MaxDeadline :
          Reset(FALSE, locs, dest, deadline) /\ UNCHANGED <<sim, trail>>
    \/ Step("forward") /\ UNCHANGED <<sim, trail>>
    \/ \E action \in {"None", "right"} : Act("a1", action, NoTraffic, 0) /\ UNCHANGED <<sim, trail>>
    \/ Act("a2", "forward", NoTraffic, 0) /\ UNCHANGED <<sim, trail>>

SpecMetrics == Init /\ [][NextMetrics]_vars

\* SpecSim: Simulator.run over an environment whose smartcab a1 turns right at every
\* tick; a learning agent's epsilon starts at any level and decays at any trial;
\* the lights are drawn alike
NextSim ==
    \/ \E at \in Coords : sim.pc = "constructed" /\ CreateAgent("a1", at) /\ UNCHANGED <<sim, trail>>
    \/ sim.pc = "constructed" /\ SetPrimaryAgent("a1", FALSE) /\ UNCHANGED <<sim, trail>>
    \/ \E n_test \in 0..MaxNTest, learning \in BOOLEAN, epsilon \in 0..MaxEpsilon :
          (~learning => epsilon = 0) /\ SimRun(1, n_test, learning, epsilon)
    \/ \E locs \in [Registered -> Coords], dest \in Coords : SimStartTrial(locs, dest, 1)
    \/ SimBreak
    \/ SimQuit
    \/ SimStep("right")
    \/ SimAct("right", NoTraffic, 0)
    \/ SimIdle
    \/ SimNextFrame
    \/ SimQuitRun
    \/ SimTrialOver

SpecSim == InitRules /\ [][NextSim]_vars

\* SpecSimFair: the same, and the program never stops while it has a step to take
SpecSimFair == InitRules /\ [][NextSim]_vars /\ WF_vars(NextSim)

\* the trail after the call c: a legal left or right turn is added to it (the four
\* latest are kept), any other act call starts it anew
TrailAfter(c) ==
    IF c.op = "act" /\ c.outcome = "ok" /\ c.violation = 0 /\ c.action \in {"left", "right"}
    THEN Append(IF Len(trail) = 4 THEN Tail(trail) ELSE trail,
                [action |-> c.action, from |-> c.before.heading])
    ELSE <<>>

\* SpecTurns: one agent that is not the primary agent turning and driving while the
\* clock runs and the lights change; its legal turns in a row are kept in trail
NextTurns ==
    \/ \E at \in Coords : CreateAgent("a2", at) /\ UNCHANGED <<sim, trail>>
    \/ \E locs \in [Registered -> Coords], dest \in Coords :
          Reset(FALSE, locs, dest, 1) /\ trail' = <<>> /\ UNCHANGED sim
    \/ Step("None") /\ UNCHANGED <<sim, trail>>
    \/ \E action \in valid_actions, inputs \in {NoTraffic, CrossTraffic} :
          Act("a2", action, inputs, 0) /\ trail' = TrailAfter(call') /\ UNCHANGED sim

SpecTurns == Init /\ [][NextTurns]_vars

-----------------------------------------------------------------------------
(* Properties *)

\* the last call was an act call that returned a reward
ActReturned == call.op = "act" /\ call.outcome = "ok"

\* the acting agent's state dict after the call
Actor == agent_states[call.agent]

Wrapped(v, lo, hi) == IF v > hi THEN lo ELSE IF v < lo THEN hi ELSE v

\* the intersection one cell from c in direction h on the torus
OneCellAlong(c, h) ==
    <<Wrapped(c[1] + h[1], bounds[1], bounds[3]), Wrapped(c[2] + h[2], bounds[2], bounds[4])>>

CounterClockwise(h) ==
    CASE h = <<1, 0>>  -> <<0, -1>>     \* E -> N
      [] h = <<0, -1>> -> <<-1, 0>>     \* N -> W
      [] h = <<-1, 0>> -> <<0, 1>>      \* W -> S
      [] h = <<0, 1>>  -> <<1, 0>>      \* S -> E

Clockwise(h) ==
    CASE h = <<1, 0>>  -> <<0, 1>>      \* E -> S
      [] h = <<0, 1>>  -> <<-1, 0>>     \* S -> W
      [] h = <<-1, 0>> -> <<0, -1>>     \* W -> N
      [] h = <<0, -1>> -> <<1, 0>>      \* N -> E

\* C1: for every act call that returns, the reward minus its random base is
\* 2 - penalty when the action is legal and equals the advised waypoint, 2 - penalty
\* when the agent legally waits at a red light, 1 - penalty for any other legal
\* action, and exactly -5, -10, -20, -40 for violation 1, 2, 3, 4 with no penalty
\* subtracted.
C1_RewardByOutcome ==
    ActReturned =>
        LET term == call.reward.fixed - call.rand
            pen  == call.reward.pen
        IN  IF call.violation = 0
            THEN IF call.action = call.waypoint \/ (call.action = "None" /\ call.light = "red")
                 THEN term = 2 /\ pen = call.penalty
                 ELSE term = 1 /\ pen = call.penalty
            ELSE /\ pen = Zero
                 /\ \/ call.violation = 1 /\ term = -5
                    \/ call.violation = 2 /\ term = -10
                    \/ call.violation = 3 /\ term = -20
                    \/ call.violation = 4 /\ term = -40

\* C1 witness: a legal wait at a red light against the advice, under a deadline
\* penalty that is not zero
C1_Witness ==
    /\ ActReturned
    /\ call.violation = 0 /\ call.action = "None" /\ call.light = "red"
    /\ call.waypoint = "forward"
    /\ call.penalty # Zero /\ call.rand = -1

\* C3: forward on green is violation 0 whatever the others intend and moves the
\* agent one cell along its unchanged heading; forward on red is violation 2, and 4
\* exactly when the agent sensed on the left or on the right intends forward.
C3_Forward ==
    (ActReturned /\ call.action = "forward") =>
        IF call.light = "green"
        THEN /\ call.violation = 0
             /\ Actor.heading = call.before.heading
             /\ Actor.location.at = OneCellAlong(call.before.location.at, call.before.heading)
        ELSE /\ call.light = "red"
             /\ call.violation =
                  IF call.inputs.left = "forward" \/ call.inputs.right = "forward" THEN 4 ELSE 2

\* C3 witness: forward at a red light with forward traffic from the right only
C3_Witness ==
    /\ ActReturned /\ call.action = "forward" /\ call.light = "red"
    /\ call.inputs.right = "forward" /\ call.inputs.left # "forward"
    /\ call.violation = 4

\* C4: left on red is violation 2, and 4 exactly when the left or right agent
\* intends forward or the oncoming agent intends right; left on green is violation 3
\* exactly when the oncoming agent intends forward or right, and otherwise violation
\* 0 with the heading rotated 90 degrees counter-clockwise.
C4_Left ==
    (ActReturned /\ call.action = "left") =>
        IF call.light = "red"
        THEN call.violation =
               IF \/ call.inputs.left = "forward" \/ call.inputs.right = "forward"
                  \/ call.inputs.oncoming = "right"
               THEN 4 ELSE 2
        ELSE /\ call.light = "green"
             /\ IF call.inputs.oncoming \in {"forward", "right"}
                THEN call.violation = 3
                ELSE /\ call.violation = 0
                     /\ Actor.heading = CounterClockwise(call.before.heading)

\* C4 witness: left at a red light with no cross traffic and an oncoming right turn
C4_Witness ==
    /\ ActReturned /\ call.action = "left" /\ call.light = "red"
    /\ call.inputs.left # "forward" /\ call.inputs.right # "forward"
    /\ call.inputs.oncoming = "right"
    /\ call.violation = 4

\* C5: right is violation 3 exactly when the light is red and the agent sensed on
\* the left intends forward; in every other case it is violation 0 and the heading
\* rotates 90 degrees clockwise; right never yields violation 1, 2 or 4.
C5_Right ==
    (ActReturned /\ call.action = "right") =>
        /\ call.violation \in {0, 3}
        /\ call.violation = 3 <=> (call.light = "red" /\ call.inputs.left = "forward")
        /\ call.violation = 0 => Actor.heading = Clockwise(call.before.heading)

\* C5 witness: a legal right turn at a red light
C5_Witness ==
    /\ ActReturned /\ call.action = "right" /\ call.light = "red"
    /\ call.inputs.left # "forward"
    /\ call.violation = 0
    /\ Actor.heading = Clockwise(call.before.heading)

\* C6: waiting on green with no oncoming traffic turning left is violation 1;
\* waiting is violation 0 on every red light and on green when the oncoming agent
\* intends left; waiting never yields violation 2, 3 or 4.
C6_Waiting ==
    (ActReturned /\ call.action = "None") =>
        /\ call.violation \in {0, 1}
        /\ (call.light = "green" /\ call.inputs.oncoming # "left") => call.violation = 1
        /\ (call.light = "red" \/ call.inputs.oncoming = "left") => call.violation = 0

\* C6 witness: a legal wait at a green light for an oncoming left turn
C6_Witness ==
    /\ ActReturned /\ call.action = "None" /\ call.light = "green"
    /\ call.inputs.oncoming = "left"
    /\ call.violation = 0

\* C2: an act call changes the acting agent's location or heading only when it
\* returns with violation 0 and an action other than None (so a violating call,
\* a blocked left or right turn included, moves and rotates nothing), and it never
\* changes another agent's location or heading or any signal's phase.
C2_MovesOnlyWhenLegal ==
    [][call'.op = "act" =>
         /\ \A c \in Coords : intersections'[c].state = intersections[c].state
         /\ \A a \in Registered :
              (\/ agent_states'[a].location # agent_states[a].location
               \/ agent_states'[a].heading # agent_states[a].heading)
              => /\ a = call'.agent
                 /\ call'.outcome = "ok"
                 /\ call'.violation = 0
                 /\ call'.action # "None"]_vars

\* C2 witness: a right turn blocked by cross traffic, with a second agent registered
C2_Witness ==
    /\ ActReturned /\ call.action = "right" /\ call.violation = 3
    /\ Cardinality(Registered) = 2
    /\ Actor.heading = call.before.heading /\ Actor.location = call.before.location

\* C7: whenever a legal move (violation 0, action not None) of the primary agent
\* puts its location on its destination, the same call sets success and done,
\* whatever the remaining deadline.
C7_ArrivalEndsTrial ==
    (/\ ActReturned
     /\ call.agent = primary_agent
     /\ call.violation = 0 /\ call.action # "None"
     /\ Actor.location.at = Actor.destination)
    => (done /\ success = "True")

\* C7 witness: the primary agent arrives by a legal move after its deadline has passed
C7_Witness ==
    /\ ActReturned
    /\ call.agent = primary_agent
    /\ call.violation = 0 /\ call.action # "None"
    /\ Actor.location.at = Actor.destination
    /\ Actor.location.at # call.before.location.at
    /\ Actor.deadline < 0
    /\ done /\ success = "True"

\* C8: an act call changes done from false to true only if the acting agent is the
\* primary agent, the action was classified violation 0, and the agent's location
\* equals its destination after the call.
C8_DoneOnlyAfterValidMove ==
    [][(call'.op = "act" /\ ~done /\ done') =>
         /\ call'.agent = primary_agent
         /\ call'.outcome = "ok"
         /\ call'.violation = 0
         /\ agent_states'[call'.agent].location.at = agent_states'[call'.agent].destination]_vars

\* C9 as stated: an act call with an unregistered agent fails with UnknownAgentError,
\* and an act call with an action outside the action set fails with InvalidActionError.
C9_EachInputItsError ==
    call.op = "act" =>
        /\ call.agent \notin Registered => call.outcome = "UnknownAgentError"
        /\ call.action \notin valid_actions => call.outcome = "InvalidActionError"

\* C9 amended: an act call with an unregistered agent fails with UnknownAgentError,
\* whatever the action; an act call with a registered agent and an action outside the
\* action set fails with InvalidActionError; in both cases no reward is returned and
\* nothing of the environment's state is changed.
C9_RejectsBeforeAnyEffect ==
    [][(call'.op = "act" /\ (call'.agent \notin Registered \/ call'.action \notin valid_actions)) =>
         /\ call'.outcome = IF call'.agent \notin Registered
                            THEN "UnknownAgentError" ELSE "InvalidActionError"
         /\ "reward" \notin DOMAIN call'
         /\ UNCHANGED envVars]_vars

\* C9 witness: in the middle of a trial, after the primary agent has acted, an
\* invalid action of a registered agent is rejected
C9_Witness ==
    /\ call.op = "act"
    /\ call.agent \in Registered /\ call.action \notin valid_actions
    /\ call.outcome = "InvalidActionError"
    /\ DOMAIN step_data # {} /\ ActsCounted > 0

\* C10: an update(t) flips the phase if and only if t minus the tick of the last
\* flip is at least the period, it flips at most once however many periods have
\* elapsed, and the tick of the last flip becomes t exactly when it flips.
C10_FlipsIffPeriodElapsed ==
    [][call'.op = "update" =>
         LET due == call'.t - light.last_updated >= light.period IN
         /\ call'.flips = IF due THEN 1 ELSE 0
         /\ (light'.state # light.state) <=> due
         /\ light'.last_updated = IF due THEN call'.t ELSE light.last_updated
         /\ light'.period = light.period]_vars

\* C10 witness: an update that comes at least two periods after the last flip
C10_Witness ==
    /\ call.op = "update"
    /\ call.t - call.last >= 2 * light.period
    /\ call.flips = 1
    /\ light.last_updated = call.t

\* C11: in every act call that returns, the light used is green exactly when the
\* signal at the agent's intersection is north-south open and the agent heads N or
\* S, or east-west open and the agent heads E or W; it is red in every other case.
C11_GreenIffAxisOpen ==
    ActReturned =>
        LET phase == intersections[call.before.location.at].state
            h     == call.before.heading
            open  == \/ phase /\ h \in {<<0, -1>>, <<0, 1>>}
                     \/ ~phase /\ h \in {<<1, 0>>, <<-1, 0>>}
        IN  call.light = IF open THEN "green" ELSE "red"

\* C11 witness: an agent heading west at an east-west open signal is given green
C11_Witness ==
    /\ ActReturned
    /\ call.before.heading = <<-1, 0>>
    /\ ~intersections[call.before.location.at].state
    /\ call.light = "green"

PenCount(net, f) == IF f \in DOMAIN net.pens THEN net.pens[f] ELSE 0

\* C13: every act call of the primary agent that returns adds the returned reward
\* to net_reward, sets final_deadline to the agent's deadline minus 1 and increments
\* the action-count bucket of the call's violation kind, and no other bucket, by 1,
\* so the five buckets sum to the number of such calls since the metrics were
\* created; an act call of any other agent leaves trial_data, step_data, done and
\* success unchanged.
C13_MetricsPrimaryOnly ==
    /\ [](ActsCounted = primary_acts)
    /\ [][call'.op = "act" =>
            IF call'.agent = primary_agent
            THEN call'.outcome = "ok" =>
                   /\ trial_data'.net_reward.fixed =
                        trial_data.net_reward.fixed + call'.reward.fixed
                   /\ \A f \in DOMAIN trial_data.net_reward.pens \cup {call'.reward.pen} :
                        PenCount(trial_data'.net_reward, f) =
                          PenCount(trial_data.net_reward, f)
                          + (IF f = call'.reward.pen /\ f # Zero THEN 1 ELSE 0)
                   /\ trial_data'.final_deadline = <<agent_states[call'.agent].deadline - 1>>
                   /\ \A v \in 0..4 :
                        trial_data'.actions[v] =
                          trial_data.actions[v] + (IF v = call'.violation THEN 1 ELSE 0)
            ELSE UNCHANGED <<trial_data, step_data, done, success>>]_vars

\* C13 witness: the second act call of the primary agent in a trial, one legal and
\* one a violation, both with a deadline penalty or fixed part to add up, while
\* another agent is registered
C13_Witness ==
    /\ ActReturned /\ call.agent = primary_agent
    /\ primary_acts = 2
    /\ trial_data.actions[0] = 1 /\ trial_data.actions[1] = 1
    /\ trial_data.net_reward.fixed # call.reward.fixed
    /\ Cardinality(Registered) = 2

\* the last call was an act call of the primary agent that returned with the agent
\* on its destination
ArrivalCall ==
    /\ ActReturned /\ call.agent = primary_agent
    /\ Actor.location.at = Actor.destination

\* C14: trial_data success becomes 1 only in an act call that returns with the
\* primary agent on its destination while its deadline is >= 0, so trial_data
\* success = 1 implies that success is true and done is true; an arrival with a
\* deadline < 0 sets success and done and leaves trial_data success as it was.
C14_SuccessInTime ==
    /\ [](trial_data.success = 1 => (success = "True" /\ done))
    /\ [][(trial_data'.success = 1 /\ trial_data.success # 1) =>
            (ArrivalCall' /\ agent_states'[call'.agent].deadline >= 0)]_vars
    /\ [][(call'.op = "act" /\ ArrivalCall' /\ agent_states'[call'.agent].deadline < 0) =>
            /\ success' = "True" /\ done'
            /\ trial_data'.success = trial_data.success]_vars

\* C14 witness: an arrival after the deadline has passed: success and done are set
\* and trial_data success is still 0
C14_Witness ==
    /\ ArrivalCall
    /\ Actor.deadline < 0
    /\ success = "True" /\ done
    /\ trial_data.success = 0

\* C15: in every act call the elapsed-time fraction f = t / (t + deadline) of the
\* primary agent is well defined (no division by zero) and, with the deadline
\* enforced, 0 <= f < 1, so that the penalty (10^f - 1)/9 lies in [0, 1); with
\* enforcement disabled, and for every agent other than the primary agent, the
\* penalty is exactly 0.
C15_PenaltyBelowOne ==
    call.op = "act" =>
        /\ call.outcome # "ZeroDivisionError"
        /\ call.outcome = "ok" =>
             IF enforce_deadline /\ call.agent = primary_agent
             THEN 0 <= call.penalty[1] /\ call.penalty[1] < call.penalty[2]
             ELSE call.penalty = Zero

\* C16: once set_primary_agent has been called, exactly one agent carries the
\* primary flag, it is the agent stored as the environment's primary_agent, and
\* enforce_deadline equals the argument of the latest set_primary_agent call.
C16_ExactlyOnePrimary ==
    /\ primary_agent # "None" => {a \in Agents : agent_flag[a]} = {primary_agent}
    /\ call.op = "set_primary_agent" =>
         (primary_agent = call.agent /\ enforce_deadline = call.enforce)

\* Simulator.run has been entered
Running == sim.pc # "constructed"

\* C17: a run that ends without quit has started exactly n_test testing trials,
\* that is, it has called env.reset with testing = true exactly n_test times.
C17_NTestTestingTrials ==
    (Running /\ sim.pc = "ended" /\ ~sim.quit) => sim.started.testing = sim.n_test

TrailEndsWith(actions) ==
    /\ Len(trail) >= Len(actions)
    /\ \A i \in 1..Len(actions) :
         trail[Len(trail) - Len(actions) + i].action = actions[i]

\* the heading the agent had before the last n turns of the trail
HeadingBefore(n) == trail[Len(trail) - n + 1].from

\* C19: a legal left maps the heading E->N, N->W, W->S, S->E and a legal right
\* E->S, S->W, W->N, N->E; in the same call the agent relocates one cell along the
\* new heading, not along the old one; a legal left followed by a legal right, and
\* four legal turns of the same kind in a row, restore the original heading.
C19_TurnThenMove ==
    /\ (ActReturned /\ call.violation = 0 /\ call.action \in {"left", "right"}) =>
         /\ Actor.heading = IF call.action = "left"
                            THEN CounterClockwise(call.before.heading)
                            ELSE Clockwise(call.before.heading)
         /\ Actor.location.at = OneCellAlong(call.before.location.at, Actor.heading)
         /\ Actor.location.at # OneCellAlong(call.before.location.at, call.before.heading)
    /\ TrailEndsWith(<<"left", "right">>) => agent_states["a2"].heading = HeadingBefore(2)
    /\ TrailEndsWith(<<"left", "left", "left", "left">>) =>
         agent_states["a2"].heading = HeadingBefore(4)
    /\ TrailEndsWith(<<"right", "right", "right", "right">>) =>
         agent_states["a2"].heading = HeadingBefore(4)

\* C19 witness: the fourth legal left turn in a row
C19_Witness ==
    /\ ActReturned /\ call.violation = 0 /\ call.action = "left"
    /\ TrailEndsWith(<<"left", "left", "left", "left">>)
    /\ Actor.heading = HeadingBefore(4)

\* C20: updated once per tick with ticks 1, 2, 3, ... after construction or reset,
\* a light of period p flips exactly at the ticks p, 2p, 3p, ...: last_updated
\* changes only in an update that flips and is the tick of the latest flip, the
\* latest multiple of p; fewer than p ticks have passed since the latest flip, so
\* the phase changes again within p <= 5 ticks.
C20_FlipsEveryPeriod ==
    [][call'.op = "update" =>
         LET k == call'.t
             p == light.period
         IN  /\ p \in {2, 3, 4, 5} /\ light'.period = p
             /\ call'.flips = IF k % p = 0 THEN 1 ELSE 0
             /\ (light'.state # light.state) <=> (k % p = 0)
             /\ (light'.last_updated # light.last_updated) => call'.flips = 1
             /\ light'.last_updated = p * (k \div p)
             /\ k - light'.last_updated < p]_vars

\* C20 witness: a light of period 5 flips for the second time at tick 10
C20_Witness ==
    /\ call.op = "update" /\ call.t = 10
    /\ light.period = 5
    /\ call.flips = 1 /\ call.last = 5
    /\ light.last_updated = 10

\* C21: every agent's location is an intersection of the grid, a key of the
\* intersections map, so that the signal lookup in act succeeds, and every agent's
\* heading is one of the four unit headings E, N, W, S.
C21_LocationsInGrid ==
    /\ \A a \in Registered :
         /\ agent_states[a].location.type = "tuple"
         /\ agent_states[a].location.at \in DOMAIN intersections
         /\ bounds[1] <= agent_states[a].location.at[1]
         /\ agent_states[a].location.at[1] <= bounds[3]
         /\ bounds[2] <= agent_states[a].location.at[2]
         /\ agent_states[a].location.at[2] <= bounds[4]
         /\ agent_states[a].heading \in {<<1, 0>>, <<0, -1>>, <<-1, 0>>, <<0, 1>>}
    /\ call.op = "act" => call.outcome # "TypeError"

\* run is inside the inner loop of a trial
InTrial == sim.pc \in {"frame", "acting", "finally"}

\* every trial eventually ends
TrialsEnd == InTrial ~> ~InTrial

\* the inner loop of a trial is left only when quit or env.done holds, and quit
\* ends the whole run: the trial is not counted and no other trial is started
LeavesTrialOnQuitOrDone ==
    /\ [][(InTrial /\ ~InTrial') => (sim.quit \/ done)]_vars
    /\ [][(Running /\ sim.quit) =>
            /\ sim'.pc = "ended"
            /\ sim'.completed = sim.completed /\ sim'.total_trials = sim.total_trials
            /\ sim'.started = sim.started /\ call'.op # "reset"]_vars

\* C22 as stated: provided every trial eventually ends, run eventually reaches
\* "Simulation ended", for a learning agent as for any other; the inner loop of a
\* trial is left only when quit or env.done holds, and quit ends the whole run.
C22_RunTerminates ==
    /\ LeavesTrialOnQuitOrDone
    /\ (<>Running /\ TrialsEnd) => <>(sim.pc = "ended")

\* C22 amended: provided every trial eventually ends and, for a learning agent,
\* epsilon eventually falls below tolerance and stays there, run eventually reaches
\* "Simulation ended"; the inner loop of a trial is left only when quit or env.done
\* holds, and quit ends the whole run.
C22_RunTerminatesOnceEpsilonFalls ==
    /\ LeavesTrialOnQuitOrDone
    /\ (/\ <>Running
        /\ TrialsEnd
        /\ <>[](Running /\ (sim.learning => sim.epsilon < sim.tolerance)))
       => <>(sim.pc = "ended")

\* C22 witness: the run of a learning agent has ended without quit, after more
\* than the minimum of training trials and after its testing trials
C22_Witness ==
    /\ Running /\ sim.pc = "ended" /\ ~sim.quit
    /\ sim.learning
    /\ sim.completed.training > 20
    /\ sim.completed.testing = 2

====
